---- MODULE Spec2Model ----
(***************************************************************************)
(* Model of olympia.abuse.utils: the CinderAction class hierarchy that     *)
(* executes a moderation decision on a target (Addon, UserProfile,         *)
(* Collection, Rating), and the escalation flagger of                      *)
(* CinderActionEscalateAddon.                                              *)
(*                                                                         *)
(* The entity store (the database rows) and the in-memory target object    *)
(* an action holds (self.target) are separate pieces of state: the guards  *)
(* of process_action read the in-memory object, instance methods           *)
(* (force_disable, delete, ...) change the object and its row, queryset    *)
(* methods (UserProfile.objects.filter(...).ban_...) change only rows.     *)
(***************************************************************************)
EXTENDS Integers, Sequences, FiniteSets, TLC

(***************************************************************************)
(* Bounds of the model.                                                    *)
(***************************************************************************)
\* version ids of the add-on are 1..NV
NV == 2
\* the longest list of reports handed to notify_reporters
MaxReports == 2
\* the audit log holds at most MaxLog entries
MaxLog == 2

(***************************************************************************)
(* Target kinds, statuses and classes.                                     *)
(***************************************************************************)
Kinds == {"Addon", "UserProfile", "Collection", "Rating"}

\* amo.STATUS_DISABLED and two statuses of a live add-on
STATUS_DISABLED == "DISABLED"
AddonStatuses == {"NULL", "APPROVED", STATUS_DISABLED}

\* the status values a target of a kind can have: Addon.status,
\* UserProfile.banned, Collection.deleted, Rating.deleted
Statuses(kind) ==
    CASE kind = "Addon" -> AddonStatuses
      [] kind = "UserProfile" -> {"active", "banned"}
      [] OTHER -> {"existing", "deleted"}

Classes ==
    {"CinderActionBanUser", "CinderActionDisableAddon",
     "CinderActionRejectVersion", "CinderActionRejectVersionDelayed",
     "CinderActionEscalateAddon", "CinderActionDeleteCollection",
     "CinderActionDeleteRating", "CinderActionTargetAppealApprove",
     "CinderActionOverrideApprove", "CinderActionApproveNoAction",
     "CinderActionApproveInitialDecision",
     "CinderActionTargetAppealRemovalAffirmation",
     "CinderActionNotImplemented"}

\* the class attribute valid_targets, inherited along the class hierarchy:
\* CinderAction.valid_targets = () is what CinderActionNotImplemented has
valid_targets(cls) ==
    CASE cls = "CinderActionBanUser" -> {"UserProfile"}
      [] cls \in {"CinderActionDisableAddon", "CinderActionRejectVersion",
                  "CinderActionRejectVersionDelayed",
                  "CinderActionEscalateAddon"} -> {"Addon"}
      [] cls = "CinderActionDeleteCollection" -> {"Collection"}
      [] cls = "CinderActionDeleteRating" -> {"Rating"}
      [] cls \in {"CinderActionTargetAppealApprove",
                  "CinderActionOverrideApprove",
                  "CinderActionApproveNoAction",
                  "CinderActionApproveInitialDecision",
                  "CinderActionTargetAppealRemovalAffirmation"} -> Kinds
      [] OTHER -> {}

(***************************************************************************)
(* State.                                                                  *)
(***************************************************************************)
VARIABLES
    db,        \* entity store: the stored status of the target of each kind
    related,   \* kinds of content owned by the account (ban cascade)
    versions,  \* version ids the add-on has (unfiltered_for_relations)
    nhr,       \* NeedsHumanReview rows of each version
    waffle,    \* waffle switches
    action,    \* the CinderAction object in hand (self), or NoAction
    auditLog,  \* activity log entries written by log_create
    history,   \* of each target: has its takedown been applied, reversed
    ev,        \* the last call and what it did
    authors,          \* users that are authors of the add-on
    current_version,  \* Addon.current_version: a version id, or 0 for None
    language,         \* the active translation of the thread
    reports,          \* the abuse reports handed to notify_reporters
    outbox,           \* the last call, if a notify call: what it dispatched
    racers            \* two executions on one target: position and object

\* the state that only the notifications read or write
mailVars == <<authors, current_version, language, reports>>

vars == <<db, related, versions, nhr, waffle, action, auditLog, history, ev,
          authors, current_version, language, reports, outbox, racers>>

VersionIds == 1 .. NV
\* an abuse report names a version string of the add-on (the id of the
\* version that carries it), a string no version carries (an id that is
\* not in versions), or None (0)
ReportedEntries == 0 .. NV

EscalationSwitches == {"dsa-cinder-escalations-review"}
Switches == EscalationSwitches \union {"dsa-appeals-review"}

NoAction == [cls |-> "none"]
None == [code |-> "None", target |-> "none", versions |-> <<>>]
LogEntry(code, kind, vs) == [code |-> code, target |-> kind, versions |-> vs]

\* rows of one version: the number of active rows with
\* reason=REASON_CINDER_ESCALATION, whether it has an inactive row with that
\* reason, whether it has an active row with another reason
NoFlags == [active |-> 0, resolved |-> FALSE, other |-> FALSE]

EvNone ==
    [op |-> "none", cls |-> "none", kind |-> "none", raised |-> "none",
     ret |-> None, ret0 |-> None, emitted |-> <<>>, wrote |-> FALSE,
     stage0 |-> "off", db0 |-> [k \in Kinds |-> "none"], target0 |-> "none",
     nhr0 |-> [v \in VersionIds |-> NoFlags],
     named |-> {}, named0 |-> {}, fallback |-> FALSE, latest |-> {},
     again |-> FALSE]

\* settings.LANGUAGE_CODE
LANGUAGE_CODE == "en-US"

\* the record of a call that was not a notify call, and of no executions
NoCall ==
    [op |-> "none", cls |-> "none", kind |-> "none", raised |-> "none",
     failed |-> FALSE, sent |-> <<>>, owners |-> {},
     language0 |-> LANGUAGE_CODE, db0 |-> [k \in Kinds |-> "none"],
     log0 |-> <<>>, applied0 |-> FALSE]
NoRacers == [r \in {1, 2} |-> [pc |-> "idle", self |-> NoAction]]

(***************************************************************************)
(* Helpers.                                                                *)
(***************************************************************************)
Max(S) == CHOOSE x \in S : \A y \in S : y <= x
Min(S) == CHOOSE x \in S : \A y \in S : x <= y

\* sorted(version_objs, key=lambda v: v.id)
\* sorted(version_objs, key=...) with the order reversed
RECURSIVE sorted_descending(_)
sorted_descending(S) ==
    IF S = {} THEN <<>> ELSE <<Max(S)>> \o sorted_descending(S \ {Max(S)})

RECURSIVE sorted(_)
sorted(S) == IF S = {} THEN <<>> ELSE <<Min(S)>> \o sorted(S \ {Min(S)})

\* the store as the methods see it
Store == [db |-> db, nhr |-> nhr, related |-> related, versions |-> versions,
          waffle |-> waffle, current_version |-> current_version]

\* what an execution that does nothing leaves behind
NoOp(self, st) ==
    [db |-> st.db, nhr |-> st.nhr, target |-> self.target, ret |-> None,
     emitted |-> <<>>, wrote |-> FALSE, raised |-> "none",
     named |-> {}, fallback |-> FALSE, latest |-> {}]

(***************************************************************************)
(* Collaborators: methods of the models, which are not part of             *)
(* olympia.abuse.utils.                                                    *)
(***************************************************************************)
\* Addon.force_disable: the add-on's status becomes STATUS_DISABLED
force_disable(dbv) == [dbv EXCEPT !["Addon"] = STATUS_DISABLED]

\* Addon.force_enable: the add-on is enabled again
force_enable(dbv) == [dbv EXCEPT !["Addon"] = "APPROVED"]

\* UserManager.ban_and_disable_related_content: bans the accounts of the
\* queryset and takes down the content they own
ban_and_disable_related_content(dbv, rel) ==
    [k \in Kinds |->
        IF k = "UserProfile" THEN "banned"
        ELSE IF k \in rel
             THEN (IF k = "Addon" THEN STATUS_DISABLED ELSE "deleted")
             ELSE dbv[k]]

\* UserManager.unban_and_reenable_related_content: the reverse
unban_and_reenable_related_content(dbv, rel) ==
    [k \in Kinds |->
        IF k = "UserProfile" THEN "active"
        ELSE IF k \in rel
             THEN (IF k = "Addon" THEN "APPROVED" ELSE "existing")
             ELSE dbv[k]]

\* Collection.delete / Rating.delete: soft delete
delete(dbv, kind) == [dbv EXCEPT ![kind] = "deleted"]

\* Collection.undelete / Rating.undelete
undelete(dbv, kind) == [dbv EXCEPT ![kind] = "existing"]

\* Addon.set_needs_human_review_on_latest_versions(reason=...,
\* unique_reason=True): flags the latest version unless it already has an
\* active flag of the reason; returns the versions it flagged
set_needs_human_review_on_latest_versions(nhrv, vs) ==
    IF vs = {} \/ nhrv[Max(vs)].active > 0
    THEN [nhr |-> nhrv, flagged |-> {}]
    ELSE [nhr |-> [nhrv EXCEPT ![Max(vs)].active = @ + 1], flagged |-> {Max(vs)}]

\* Addon.find_latest_version(channel=None, exclude=()): the newest version
\* of the add-on, or None (0) when it has none
find_latest_version(vs) == IF vs = {} THEN 0 ELSE Max(vs)

(***************************************************************************)
(* CinderAction.__init__                                                   *)
(***************************************************************************)
\* __init__ without the isinstance check of valid_targets
CinderAction_init_unchecked(cls, kind, decision, st) ==
    [raised |-> "none",
     self |-> [cls |-> cls, kind |-> kind, target |-> st.db[kind],
               decision |-> decision, addon_version |-> -1]]

\* The object built from a decision whose target is of the given kind.  The
\* in-memory target is the row as loaded; addon_version is set for an Addon
\* only (0: no version found, -1: attribute not set).
CinderAction_init(cls, kind, decision, st) ==
    LET addon_version ==
            IF kind = "Addon"
            THEN (IF st.current_version # 0
                  THEN st.current_version
                  ELSE find_latest_version(st.versions))
            ELSE -1
    IN  IF kind \notin valid_targets(cls)
        THEN [raised |-> "ImproperlyConfigured", self |-> NoAction]
        ELSE [raised |-> "none",
              self |-> [cls |-> cls, kind |-> kind, target |-> st.db[kind],
                        decision |-> decision,
                        addon_version |-> addon_version]]

(***************************************************************************)
(* process_action of each class.  Each takes the object (self) and the     *)
(* store and gives the store, the in-memory target, the value returned     *)
(* and the log entries written.                                            *)
(***************************************************************************)
\* CinderAction.process_action
CinderAction_process_action(self, st) ==
    [NoOp(self, st) EXCEPT !.raised = "NotImplementedError"]

\* The ban goes through a queryset filtered by pk: it changes the row (and
\* the related content), not the object self.target.
CinderActionBanUser_process_action(self, st) ==
    IF self.target # "banned"
    THEN [NoOp(self, st) EXCEPT
            !.db = ban_and_disable_related_content(st.db, st.related),
            !.wrote = TRUE]
    ELSE NoOp(self, st)

\* process_action of CinderActionDisableAddon without its status guard
CinderActionDisableAddon_process_action_unguarded(self, st) ==
    [NoOp(self, st) EXCEPT
        !.db = force_disable(st.db),
        !.target = STATUS_DISABLED,
        !.wrote = TRUE,
        !.ret = LogEntry("FORCE_DISABLE", "Addon", <<>>),
        !.emitted = <<LogEntry("FORCE_DISABLE", "Addon", <<>>)>>]

\* force_disable is a method of self.target: the object and its row change.
CinderActionDisableAddon_process_action(self, st) ==
    IF self.target # STATUS_DISABLED
    THEN [NoOp(self, st) EXCEPT
            !.db = force_disable(st.db),
            !.target = STATUS_DISABLED,
            !.wrote = TRUE,
            !.ret = LogEntry("FORCE_DISABLE", "Addon", <<>>),
            !.emitted = <<LogEntry("FORCE_DISABLE", "Addon", <<>>)>>]
    ELSE NoOp(self, st)

CinderActionDeleteCollection_process_action(self, st) ==
    IF self.target # "deleted"
    THEN [NoOp(self, st) EXCEPT
            !.db = delete(st.db, "Collection"),
            !.target = "deleted",
            !.wrote = TRUE,
            !.ret = LogEntry("COLLECTION_DELETED", "Collection", <<>>),
            !.emitted = <<LogEntry("COLLECTION_DELETED", "Collection", <<>>)>>]
    ELSE NoOp(self, st)

CinderActionDeleteRating_process_action(self, st) ==
    IF self.target # "deleted"
    THEN [NoOp(self, st) EXCEPT
            !.db = delete(st.db, "Rating"),
            !.target = "deleted",
            !.wrote = TRUE]
    ELSE NoOp(self, st)

\* The unban goes through a queryset, as the ban does; the entry of
\* COLLECTION_UNDELETED is written and not returned.
CinderActionTargetAppealApprove_process_action(self, st) ==
    IF self.kind = "Addon" /\ self.target = STATUS_DISABLED
    THEN [NoOp(self, st) EXCEPT
            !.db = force_enable(st.db),
            !.target = force_enable(st.db)["Addon"],
            !.wrote = TRUE]
    ELSE IF self.kind = "UserProfile" /\ self.target = "banned"
    THEN [NoOp(self, st) EXCEPT
            !.db = unban_and_reenable_related_content(st.db, st.related),
            !.wrote = TRUE]
    ELSE IF self.kind = "Collection" /\ self.target = "deleted"
    THEN [NoOp(self, st) EXCEPT
            !.db = undelete(st.db, "Collection"),
            !.target = "existing",
            !.wrote = TRUE,
            !.emitted = <<LogEntry("COLLECTION_UNDELETED", "Collection", <<>>)>>]
    ELSE IF self.kind = "Rating" /\ self.target = "deleted"
    THEN [NoOp(self, st) EXCEPT
            !.db = undelete(st.db, "Rating"),
            !.target = "existing",
            !.wrote = TRUE]
    ELSE NoOp(self, st)

\* CinderActionApproveNoAction, CinderActionApproveInitialDecision,
\* CinderActionTargetAppealRemovalAffirmation, CinderActionNotImplemented
ReturnNone_process_action(self, st) == NoOp(self, st)

(***************************************************************************)
(* CinderActionEscalateAddon                                               *)
(***************************************************************************)
\* .exclude(needshumanreview__reason=reason, needshumanreview__is_active=True)
\* spans a multi-valued relation.  Django applies the conditions of one
\* exclude() call over such a relation one by one, each with its own
\* subquery: a version is excluded when some row of it has the reason and
\* some row of it is active, whether or not these are the same row.
\* the exclude() dropped from the query
excluded_never(flags) == FALSE

excluded(flags) ==
    /\ (flags.active > 0 \/ flags.resolved)
    /\ (flags.active > 0 \/ flags.other)

\* the body of the second if of flag_for_human_review: flag the versions
\* the reports name, flag the latest version to be safe, log
flag_versions(self, st) ==
        LET reported_versions == self.decision.reported
            version_objs ==
                IF reported_versions # {}
                THEN {v \in st.versions :
                        v \in reported_versions /\ ~excluded(st.nhr[v])}
                ELSE {}
            saved == [v \in VersionIds |->
                        IF v \in version_objs
                        THEN [st.nhr[v] EXCEPT !.active = @ + 1]
                        ELSE st.nhr[v]]
            flag_latest ==
                \/ Cardinality(version_objs) # Cardinality(reported_versions)
                \/ Cardinality(reported_versions) = 0
            latest ==
                IF flag_latest
                THEN set_needs_human_review_on_latest_versions(saved, st.versions)
                ELSE [nhr |-> saved, flagged |-> {}]
            all == version_objs \union latest.flagged
        IN  [NoOp(self, st) EXCEPT
                !.nhr = latest.nhr,
                !.wrote = (all # {}),
                !.emitted =
                    IF all # {}
                    THEN <<LogEntry("NEEDS_HUMAN_REVIEW_CINDER", "Addon",
                                    sorted(all))>>
                    ELSE <<>>,
                !.named = version_objs,
                !.fallback = flag_latest,
                !.latest = latest.flagged]

\* flag_for_human_review without the test of is_third_party_initiated
flag_for_human_review_any_party(self, st) ==
    IF ~st.waffle["dsa-cinder-escalations-review"]
    THEN NoOp(self, st)
    ELSE flag_versions(self, st)

flag_for_human_review(self, st) ==
    IF ~st.waffle["dsa-cinder-escalations-review"]
    THEN NoOp(self, st)
    ELSE IF self.kind = "Addon" /\ self.decision.is_third_party_initiated
    THEN flag_versions(self, st)
    ELSE NoOp(self, st)

CinderActionEscalateAddon_process_action(self, st) ==
    flag_for_human_review(self, st)

(***************************************************************************)
(* Method resolution: the process_action a call on an object of the class  *)
(* runs.  CinderActionRejectVersion and its subclass define process, not   *)
(* process_action, and so run the one of CinderActionDisableAddon.         *)
(***************************************************************************)
process_action(self, st) ==
    CASE self.cls = "CinderActionBanUser" ->
            CinderActionBanUser_process_action(self, st)
      [] self.cls \in {"CinderActionDisableAddon", "CinderActionRejectVersion",
                       "CinderActionRejectVersionDelayed"} ->
            CinderActionDisableAddon_process_action(self, st)
      [] self.cls = "CinderActionEscalateAddon" ->
            CinderActionEscalateAddon_process_action(self, st)
      [] self.cls = "CinderActionDeleteCollection" ->
            CinderActionDeleteCollection_process_action(self, st)
      [] self.cls = "CinderActionDeleteRating" ->
            CinderActionDeleteRating_process_action(self, st)
      [] self.cls \in {"CinderActionTargetAppealApprove",
                       "CinderActionOverrideApprove"} ->
            CinderActionTargetAppealApprove_process_action(self, st)
      [] self.cls \in {"CinderActionApproveNoAction",
                       "CinderActionApproveInitialDecision",
                       "CinderActionTargetAppealRemovalAffirmation",
                       "CinderActionNotImplemented"} ->
            ReturnNone_process_action(self, st)
      [] OTHER -> CinderAction_process_action(self, st)

\* CinderActionRejectVersion.process
CinderActionRejectVersion_process(self, st) ==
    [NoOp(self, st) EXCEPT !.raised = "NotImplementedError"]

(***************************************************************************)
(* get_owners of each class.                                               *)
(***************************************************************************)
\* a UserProfile, with the address mail to it goes to
User(pk, email) == [pk |-> pk, email |-> email]
\* the users that can be authors of the add-on
Developers == {User("dev1", "dev1@example.com"),
               User("dev2", "dev2@example.com")}

\* the owners of the target of a kind: target.authors.all(), the account
\* itself, target.author, target.user
owners_of(kind) ==
    CASE kind = "Addon" -> authors
      [] kind = "UserProfile" -> {User("account", "account@example.com")}
      [] kind = "Collection" -> {User("curator", "curator@example.com")}
      [] kind = "Rating" -> {User("rater", "rater@example.com")}

\* get_owners with CinderActionEscalateAddon notifying the authors
get_owners_escalation_too(self) ==
    CASE self.cls = "CinderActionBanUser" -> owners_of("UserProfile")
      [] self.cls \in {"CinderActionDisableAddon", "CinderActionRejectVersion",
                       "CinderActionRejectVersionDelayed",
                       "CinderActionEscalateAddon"} -> owners_of("Addon")
      [] self.cls = "CinderActionDeleteCollection" -> owners_of("Collection")
      [] self.cls = "CinderActionDeleteRating" -> owners_of("Rating")
      [] self.cls \in {"CinderActionTargetAppealApprove",
                       "CinderActionOverrideApprove",
                       "CinderActionApproveInitialDecision",
                       "CinderActionTargetAppealRemovalAffirmation"} ->
            owners_of(self.kind)
      [] OTHER -> {}

get_owners(self) ==
    CASE self.cls = "CinderActionBanUser" -> owners_of("UserProfile")
      [] self.cls \in {"CinderActionDisableAddon", "CinderActionRejectVersion",
                       "CinderActionRejectVersionDelayed"} -> owners_of("Addon")
      [] self.cls = "CinderActionDeleteCollection" -> owners_of("Collection")
      [] self.cls = "CinderActionDeleteRating" -> owners_of("Rating")
      [] self.cls \in {"CinderActionTargetAppealApprove",
                       "CinderActionOverrideApprove",
                       "CinderActionApproveInitialDecision",
                       "CinderActionTargetAppealRemovalAffirmation"} ->
            owners_of(self.kind)
      [] OTHER -> {}

(***************************************************************************)
(* Notifications: notify_owners and notify_reporters.                      *)
(***************************************************************************)
\* abuse_report.reporter of a report filed without an account (None)
NoReporter == User("none", "")
\* abuse_report=None, the default of can_be_appealed
NoReport ==
    [id |-> 0, reporter |-> NoReporter, reporter_email |-> "",
     application_locale |-> "", appealable |-> FALSE]

\* decision.can_be_appealed(is_reporter=..., abuse_report=...): whether
\* the party may contest the decision, for a reporter computed from the
\* report
can_be_appealed(decision, is_reporter, abuse_report) ==
    IF is_reporter
    THEN abuse_report.appealable
    ELSE decision.appealable_by_author

\* reporter_template_path of each class ("" for None)
reporter_template_path(cls) ==
    CASE cls = "CinderActionBanUser" -> "abuse/emails/reporter_takedown_user.txt"
      [] cls \in {"CinderActionDisableAddon", "CinderActionRejectVersion"} ->
            "abuse/emails/reporter_takedown_addon.txt"
      [] cls = "CinderActionRejectVersionDelayed" ->
            "abuse/emails/reporter_takedown_addon_delayed.txt"
      [] cls = "CinderActionDeleteCollection" ->
            "abuse/emails/reporter_takedown_collection.txt"
      [] cls = "CinderActionDeleteRating" ->
            "abuse/emails/reporter_takedown_rating.txt"
      [] cls \in {"CinderActionApproveNoAction",
                  "CinderActionApproveInitialDecision"} ->
            "abuse/emails/reporter_ignore.txt"
      [] OTHER -> ""

\* reporter_appeal_template_path of each class ("" for None)
reporter_appeal_template_path(cls) ==
    CASE cls \in {"CinderActionBanUser", "CinderActionDisableAddon",
                  "CinderActionRejectVersion", "CinderActionDeleteCollection",
                  "CinderActionDeleteRating"} ->
            "abuse/emails/reporter_appeal_takedown.txt"
      [] cls = "CinderActionRejectVersionDelayed" ->
            "abuse/emails/reporter_appeal_takedown_delayed.txt"
      [] cls \in {"CinderActionApproveNoAction",
                  "CinderActionApproveInitialDecision"} ->
            "abuse/emails/reporter_appeal_ignore.txt"
      [] OTHER -> ""

\* One call of a mail collaborator.  A message is what was rendered: the
\* reference id it carries (0: the decision's, n: the one of report n),
\* whether its context had an appeal_url, and the language that was active
\* while it was rendered.
Message(reference, appeal_url, lang) ==
    [reference |-> reference, appeal_url |-> appeal_url, language |-> lang]

\* send_mail(subject, message, recipient_list=...)
send_mail(message, recipient_list) ==
    [channel |-> "send_mail", message |-> message, to |-> recipient_list,
     version |-> 0, unique_id |-> "none"]

\* send_activity_mail(subject, message, version, recipients, from_email,
\* unique_id)
send_activity_mail(message, version, recipients, unique_id) ==
    [channel |-> "send_activity_mail", message |-> message,
     to |-> {user.email : user \in recipients},
     version |-> version, unique_id |-> unique_id]

\* what a notify call that sent nothing leaves behind
NoDispatch(lang) ==
    [sent |-> <<>>, raised |-> "none", failed |-> FALSE, language |-> lang,
     owners |-> {}]

\* the appeal link of the owner notification with "and" read as "or"
owner_appeal_url_either(self, st) ==
    \/ can_be_appealed(self.decision, FALSE, NoReport)
    \/ self.decision.is_third_party_initiated
    \/ st.waffle["dsa-appeals-review"]

\* whether context_dict of the owner notification gets an appeal_url
owner_appeal_url(self, st) ==
    /\ can_be_appealed(self.decision, FALSE, NoReport)
    /\ \/ self.decision.is_third_party_initiated
       \/ st.waffle["dsa-appeals-review"]

\* the dispatch of notify_owners with the fallback taken always
dispatch_owners_direct(self, message, owners, log_entry_id) ==
    send_mail(message, {user.email : user \in owners})

\* The dispatch of the owner notification: through send_activity_mail when
\* the object has a version (getattr(self, 'addon_version', None) is
\* truthy), by direct mail to the address of every owner otherwise.
dispatch_owners(self, message, owners, log_entry_id) ==
    IF self.addon_version > 0
    THEN send_activity_mail(message, self.addon_version, owners,
                            IF log_entry_id # 0
                            THEN "log_entry_id" ELSE "randrange")
    ELSE send_mail(message, {user.email : user \in owners})

\* notify_owners that swallows the failure of the mail collaborator
notify_owners_swallowing(self, log_entry_id, lang, st, fail) ==
    [NoDispatch(lang) EXCEPT !.owners = get_owners(self),
                             !.failed = fail /\ get_owners(self) # {}]

\* notify_owners(log_entry_id=...); fail: the mail collaborator raises
notify_owners(self, log_entry_id, lang, st, fail) ==
    LET owners == get_owners(self)
        message == Message(0, owner_appeal_url(self, st), lang)
    IN  IF owners = {}
        THEN NoDispatch(lang)
        ELSE IF fail
        THEN [NoDispatch(lang) EXCEPT !.owners = owners,
                                      !.raised = "DownstreamDeliveryFailure",
                                      !.failed = TRUE]
        ELSE [NoDispatch(lang) EXCEPT
                !.owners = owners,
                !.sent = <<dispatch_owners(self, message, owners,
                                           log_entry_id)>>]

\* the address taken from the free-text address alone
email_address_free_text(abuse_report) == abuse_report.reporter_email

\* abuse_report.reporter.email if abuse_report.reporter else
\* abuse_report.reporter_email
email_address(abuse_report) ==
    IF abuse_report.reporter # NoReporter
    THEN abuse_report.reporter.email
    ELSE abuse_report.reporter_email

\* the appeal link of a reporter notification decided by the first report
reporter_appeal_url_first(self, rs, abuse_report) ==
    can_be_appealed(self.decision, TRUE, rs[1])

\* whether context_dict of the notification of a report gets an appeal_url
reporter_appeal_url(self, rs, abuse_report) ==
    can_be_appealed(self.decision, TRUE, abuse_report)

\* translation.override(language): entering activates the language and
\* keeps the one that was active, leaving activates that one again, also
\* when the body raised
override_enter(active, lang) == [old_language |-> active, language |-> lang]
\* leaving without activating the old language
override_exit_stays(ctx) == ctx.language
override_exit(ctx) == ctx.old_language

\* The for loop of notify_reporters, from the i-th report on.  fail is the
\* number of the send_mail call that raises (0: none does).
RECURSIVE notify_each(_, _, _, _, _)
notify_each(self, rs, i, fail, out) ==
    IF i > Len(rs)
    THEN out
    ELSE LET abuse_report == rs[i]
             address == email_address(abuse_report)
             ctx == override_enter(out.language,
                                   IF abuse_report.application_locale # ""
                                   THEN abuse_report.application_locale
                                   ELSE LANGUAGE_CODE)
             message == Message(abuse_report.id,
                                reporter_appeal_url(self, rs, abuse_report),
                                ctx.language)
         IN  IF address = ""
             THEN notify_each(self, rs, i + 1, fail, out)
             ELSE IF Len(out.sent) + 1 = fail
             THEN [out EXCEPT !.raised = "DownstreamDeliveryFailure",
                              !.failed = TRUE,
                              !.language = override_exit(ctx)]
             ELSE notify_each(self, rs, i + 1, fail,
                              [out EXCEPT
                                 !.sent = Append(@, send_mail(message,
                                                              {address})),
                                 !.language = override_exit(ctx)])

\* notify_reporters(reporter_abuse_reports=..., is_appeal=...)
notify_reporters(self, reporter_abuse_reports, is_appeal, lang, fail) ==
    LET template == IF ~is_appeal
                    THEN reporter_template_path(self.cls)
                    ELSE reporter_appeal_template_path(self.cls)
    IN  IF template = "" \/ reporter_abuse_reports = <<>>
        THEN NoDispatch(lang)
        ELSE notify_each(self, reporter_abuse_reports, 1, fail,
                         NoDispatch(lang))

(***************************************************************************)
(* Actions.                                                                *)
(***************************************************************************)
\* the decisions handed to the constructor
Decisions ==
    [is_third_party_initiated : {TRUE}, reported : {{}},
     appealable_by_author : {FALSE}]
EscalationDecisions ==
    [is_third_party_initiated : BOOLEAN, reported : SUBSET ReportedEntries,
     appealable_by_author : {FALSE}]

\* action = cls(decision), for a decision whose target is of the kind
New(cls, kind, decision) ==
    LET r == CinderAction_init(cls, kind, decision, Store)
    IN  /\ action' = r.self
        /\ ev' = [EvNone EXCEPT !.op = "__init__", !.cls = cls, !.kind = kind,
                                !.raised = r.raised, !.db0 = db, !.nhr0 = nhr]
        /\ UNCHANGED <<db, related, versions, nhr, waffle, auditLog, history>>
        /\ outbox' = NoCall
        /\ UNCHANGED <<mailVars, racers>>

Construct ==
    \E cls \in Classes, kind \in Kinds, decision \in Decisions :
        New(cls, kind, decision)

ConstructEscalation ==
    \E decision \in EscalationDecisions :
        New("CinderActionEscalateAddon", "Addon", decision)

\* the classes that take a target down, and the ones that reverse it
Takedowns ==
    {"CinderActionBanUser", "CinderActionDisableAddon",
     "CinderActionDeleteCollection", "CinderActionDeleteRating"}
Reversals == {"CinderActionTargetAppealApprove", "CinderActionOverrideApprove"}

\* The record of what happened to the target of the object in hand, kept
\* where it is not "off": its takedown took effect ("applied"), and an
\* appeal approval then reversed it ("reversed").
Record(op, out) ==
    IF op = "process_action" /\ out.wrote /\ history[action.kind] # "off"
    THEN IF action.cls \in Takedowns
         THEN [history EXCEPT ![action.kind] = "applied"]
         ELSE IF action.cls \in Reversals /\ history[action.kind] = "applied"
         THEN [history EXCEPT ![action.kind] = "reversed"]
         ELSE history
    ELSE history

\* what a call on the object in hand leaves behind
Call(op, out) ==
    /\ Len(auditLog) + Len(out.emitted) <= MaxLog
    /\ db' = out.db
    /\ nhr' = out.nhr
    /\ action' = [action EXCEPT !.target = out.target]
    /\ auditLog' = auditLog \o out.emitted
    /\ history' = Record(op, out)
    /\ ev' = [op |-> op, cls |-> action.cls, kind |-> action.kind,
              raised |-> out.raised, ret |-> out.ret,
              ret0 |-> IF ev.op = "process_action" THEN ev.ret ELSE None,
              stage0 |-> history[action.kind],
              emitted |-> out.emitted, wrote |-> out.wrote,
              db0 |-> db, target0 |-> action.target, nhr0 |-> nhr,
              named |-> out.named,
              named0 |-> IF ev.op = "process_action" THEN ev.named ELSE {},
              fallback |-> out.fallback,
              latest |-> out.latest,
              again |-> (ev.op = "process_action")]
    /\ outbox' = NoCall
    /\ UNCHANGED <<related, versions, waffle, mailVars, racers>>

\* action.process_action()
ProcessAction ==
    /\ action # NoAction
    /\ Call("process_action", process_action(action, Store))

\* action.process(), which only CinderActionRejectVersion and its subclass
\* have
Process ==
    /\ action # NoAction
    /\ action.cls \in {"CinderActionRejectVersion",
                       "CinderActionRejectVersionDelayed"}
    /\ Call("process", CinderActionRejectVersion_process(action, Store))

\* a switch is turned on or off
SetSwitch ==
    \E name \in EscalationSwitches :
        /\ waffle' = [waffle EXCEPT ![name] = ~@]
        /\ ev' = [EvNone EXCEPT !.op = "switch"]
        /\ UNCHANGED <<db, related, versions, nhr, action, auditLog, history>>
        /\ outbox' = NoCall
        /\ UNCHANGED <<mailVars, racers>>

\* what a notify call on the object in hand leaves behind
Notify(op, out) ==
    /\ outbox' = [op |-> op, cls |-> action.cls, kind |-> action.kind,
                  raised |-> out.raised, failed |-> out.failed,
                  sent |-> out.sent, owners |-> out.owners,
                  language0 |-> language, db0 |-> db, log0 |-> auditLog,
                  applied0 |-> \/ ev.op = "process_action" /\ ev.wrote
                               \/ ev.op = "notify" /\ outbox.applied0]
    /\ language' = out.language
    /\ ev' = [EvNone EXCEPT !.op = "notify"]
    /\ UNCHANGED <<db, related, versions, nhr, waffle, action, auditLog,
                   history, authors, current_version, reports, racers>>

\* action.notify_owners(log_entry_id=...)
NotifyOwners ==
    /\ action # NoAction
    /\ \E log_entry_id \in {0, 1}, fail \in BOOLEAN :
          Notify("notify_owners",
                 notify_owners(action, log_entry_id, language, Store, fail))

\* action.notify_reporters(reporter_abuse_reports=reports, is_appeal=...)
NotifyReporters ==
    /\ action # NoAction
    /\ \E is_appeal \in BOOLEAN, fail \in 0 .. Len(reports) :
          Notify("notify_reporters",
                 notify_reporters(action, reports, is_appeal, language, fail))

\* an author joins or leaves the add-on
ChangeAuthors ==
    \E user \in Developers :
        /\ authors' = IF user \in authors
                      THEN authors \ {user} ELSE authors \union {user}
        /\ ev' = [EvNone EXCEPT !.op = "authors"]
        /\ outbox' = NoCall
        /\ UNCHANGED <<db, related, versions, nhr, waffle, action, auditLog,
                       history, current_version, language, reports, racers>>

\* Two executions on one target, each with its own object, taking their
\* steps in any order: the object is built (the target is loaded), the
\* guard of process_action is evaluated on it, the write and log_create
\* follow.
RaceClasses == {"CinderActionDisableAddon", "CinderActionDeleteCollection"}

Step(r, pc, self) ==
    /\ racers' = [racers EXCEPT ![r] = [pc |-> pc, self |-> self]]
    /\ ev' = [EvNone EXCEPT !.op = "race"]
    /\ outbox' = NoCall
    /\ UNCHANGED <<related, versions, nhr, waffle, action, history, mailVars>>

\* cls(decision), of the class of the other execution if that one is built
RaceBuild(r) ==
    \E cls \in RaceClasses, decision \in Decisions :
        /\ racers[r].pc = "idle"
        /\ \A o \in {1, 2} : racers[o].pc # "idle" => racers[o].self.cls = cls
        /\ Step(r, "built",
                CinderAction_init(cls,
                                  IF cls = "CinderActionDisableAddon"
                                  THEN "Addon" ELSE "Collection",
                                  decision, Store).self)
        /\ UNCHANGED <<db, auditLog>>

\* the if of process_action: the status of self.target is read
RaceGuard(r) ==
    /\ racers[r].pc = "built"
    /\ Step(r, IF process_action(racers[r].self, Store).wrote
               THEN "writing" ELSE "done",
            racers[r].self)
    /\ UNCHANGED <<db, auditLog>>

\* the body of the if: the write of the status and log_create
RaceWrite(r) ==
    LET out == process_action(racers[r].self, Store)
    IN  /\ racers[r].pc = "writing"
        /\ Len(auditLog) + Len(out.emitted) <= MaxLog
        /\ db' = out.db
        /\ auditLog' = auditLog \o out.emitted
        /\ Step(r, "done", [racers[r].self EXCEPT !.target = out.target])

Race == \E r \in {1, 2} : RaceBuild(r) \/ RaceGuard(r) \/ RaceWrite(r)

(***************************************************************************)
(* Specifications.                                                         *)
(***************************************************************************)
\* an add-on with two authors and no current version, the default
\* language, no reports, nothing sent, no concurrent executions
NoMail ==
    /\ authors = Developers
    /\ current_version = 0
    /\ language = LANGUAGE_CODE
    /\ reports = <<>>
    /\ outbox = NoCall
    /\ racers = NoRacers

\* any target statuses, an account that owns none or all of the other
\* targets, an add-on whose versions carry no flag, the switches off
Init ==
    /\ db \in [Kinds -> UNION {Statuses(k) : k \in Kinds}]
    /\ \A k \in Kinds : db[k] \in Statuses(k)
    /\ related \in {{}, Kinds \ {"UserProfile"}}
    /\ versions = VersionIds
    /\ nhr = [v \in VersionIds |-> NoFlags]
    /\ waffle = [name \in Switches |-> FALSE]
    /\ action = NoAction
    /\ auditLog = <<>>
    /\ history = [k \in Kinds |-> "off"]
    /\ ev = EvNone
    /\ NoMail

Next == Construct \/ ProcessAction \/ Process

Spec == Init /\ [][Next]_vars

\* the rows a version starts with: none, an active escalation flag, an
\* escalation flag that was resolved, with or without an active flag of
\* another reason
InitialFlags ==
    {NoFlags,
     [active |-> 1, resolved |-> FALSE, other |-> FALSE],
     [active |-> 0, resolved |-> TRUE, other |-> FALSE],
     [active |-> 0, resolved |-> TRUE, other |-> TRUE]}

\* live targets, an add-on with any versions and flags that respect the
\* uniqueness of the active flag of a reason
InitEscalation ==
    /\ db = [k \in Kinds |-> CASE k = "Addon" -> "APPROVED"
                               [] k = "UserProfile" -> "active"
                               [] OTHER -> "existing"]
    /\ related = {}
    /\ versions \in SUBSET VersionIds
    /\ nhr \in [VersionIds -> InitialFlags]
    /\ \A v \in VersionIds \ versions : nhr[v] = NoFlags
    /\ waffle = [name \in Switches |-> FALSE]
    /\ action = NoAction
    /\ auditLog = <<>>
    /\ history = [k \in Kinds |-> "off"]
    /\ ev = EvNone
    /\ NoMail

NextEscalation == ConstructEscalation \/ ProcessAction \/ SetSwitch

SpecEscalation == InitEscalation /\ [][NextEscalation]_vars

\* Replay: live targets, the takedowns and their reversals, with the record
\* of what was applied and reversed
InitReplay ==
    /\ db = [k \in Kinds |-> CASE k = "Addon" -> "APPROVED"
                               [] k = "UserProfile" -> "active"
                               [] OTHER -> "existing"]
    /\ related \in {{}, Kinds \ {"UserProfile"}}
    /\ versions = VersionIds
    /\ nhr = [v \in VersionIds |-> NoFlags]
    /\ waffle = [name \in Switches |-> FALSE]
    /\ action = NoAction
    /\ auditLog = <<>>
    /\ history = [k \in Kinds |-> "new"]
    /\ ev = EvNone
    /\ NoMail

ConstructReplay ==
    \E cls \in Takedowns \union Reversals, kind \in Kinds,
       decision \in Decisions :
        New(cls, kind, decision)

NextReplay == ConstructReplay \/ ProcessAction

SpecReplay == InitReplay /\ [][NextReplay]_vars

\* the live targets
Live ==
    [k \in Kinds |-> CASE k = "Addon" -> "APPROVED"
                       [] k = "UserProfile" -> "active"
                       [] OTHER -> "existing"]

\* Owner notifications: live targets, an add-on with or without versions
\* and a current version, the appeals switch on or off, authors that change
InitOwners ==
    /\ db = Live
    /\ related = {}
    /\ versions \in {{}, VersionIds}
    /\ nhr = [v \in VersionIds |-> NoFlags]
    /\ waffle \in [Switches -> BOOLEAN]
    /\ \A name \in EscalationSwitches : ~waffle[name]
    /\ action = NoAction
    /\ auditLog = <<>>
    /\ history = [k \in Kinds |-> "off"]
    /\ ev = EvNone
    /\ authors = Developers
    /\ current_version \in {0} \union versions
    /\ language = LANGUAGE_CODE
    /\ reports = <<>>
    /\ outbox = NoCall
    /\ racers = NoRacers

OwnerDecisions ==
    [is_third_party_initiated : BOOLEAN, reported : {{}},
     appealable_by_author : BOOLEAN]

ConstructOwners ==
    \E cls \in Classes, kind \in Kinds, decision \in OwnerDecisions :
        New(cls, kind, decision)

NextOwners == ConstructOwners \/ NotifyOwners \/ ChangeAuthors

SpecOwners == InitOwners /\ [][NextOwners]_vars

\* the reporter of a report: none, a user, a user whose account has no
\* address left
Reporters ==
    {NoReporter, User("reporter", "reporter@example.com"), User("ghost", "")}

\* the reports of a list but for their ids: a report has a registered
\* reporter or a free-text address or neither, a locale or none, and can
\* be appealed by its reporter or not
Reports(reporters, locales, appealables) ==
    {r \in [reporter : reporters,
            reporter_email : {"", "anonymous@example.com"},
            application_locale : locales,
            appealable : appealables] :
        r.reporter = NoReporter \/ r.reporter_email = ""}

\* the lists of up to MaxReports of the reports, the i-th with id i
ReportLists(bodies) ==
    UNION {{[i \in 1 .. n |->
                [id |-> i, reporter |-> body[i].reporter,
                 reporter_email |-> body[i].reporter_email,
                 application_locale |-> body[i].application_locale,
                 appealable |-> body[i].appealable]] :
            body \in [1 .. n -> bodies]} : n \in 0 .. MaxReports}

\* Reporter notifications: live targets, any list of reports with any
\* reporters and locales, a thread with the default language or another
\* one active
InitReporters ==
    /\ db = Live
    /\ related = {}
    /\ versions = VersionIds
    /\ nhr = [v \in VersionIds |-> NoFlags]
    /\ waffle = [name \in Switches |-> FALSE]
    /\ action = NoAction
    /\ auditLog = <<>>
    /\ history = [k \in Kinds |-> "off"]
    /\ ev = EvNone
    /\ authors = Developers
    /\ current_version = 0
    /\ language \in {LANGUAGE_CODE, "de"}
    /\ reports \in ReportLists(Reports(Reporters, {"", "fr"}, {FALSE}))
    /\ outbox = NoCall
    /\ racers = NoRacers

\* the object of the decision, of any class, for a target of the first
\* kind the class accepts
ConstructReporters ==
    \E cls \in Classes, decision \in Decisions :
        /\ action = NoAction
        /\ valid_targets(cls) # {}
        /\ New(cls, CHOOSE kind \in Kinds :
                        /\ kind \in valid_targets(cls)
                        /\ "Addon" \in valid_targets(cls) => kind = "Addon",
               decision)

NextReporters == ConstructReporters \/ NotifyReporters

SpecReporters == InitReporters /\ [][NextReporters]_vars

\* Appeals of reporters: live targets, any list of reports that their
\* reporters can or cannot appeal, the appeals switch on or off, any
\* decision
InitAppeals ==
    /\ db = Live
    /\ related = {}
    /\ versions = VersionIds
    /\ nhr = [v \in VersionIds |-> NoFlags]
    /\ waffle \in [Switches -> BOOLEAN]
    /\ \A name \in EscalationSwitches : ~waffle[name]
    /\ action = NoAction
    /\ auditLog = <<>>
    /\ history = [k \in Kinds |-> "off"]
    /\ ev = EvNone
    /\ authors = Developers
    /\ current_version = 0
    /\ language = LANGUAGE_CODE
    /\ reports \in ReportLists(Reports({NoReporter}, {""}, BOOLEAN))
    /\ outbox = NoCall
    /\ racers = NoRacers

ConstructAppeals ==
    \E cls \in Classes, decision \in OwnerDecisions :
        /\ action = NoAction
        /\ valid_targets(cls) # {}
        /\ New(cls, CHOOSE kind \in Kinds :
                        /\ kind \in valid_targets(cls)
                        /\ "Addon" \in valid_targets(cls) => kind = "Addon",
               decision)

NextAppeals == ConstructAppeals \/ NotifyReporters

SpecAppeals == InitAppeals /\ [][NextAppeals]_vars

\* Remediation and then notification: live targets, reports with and
\* without an address, the takedowns and their reversals
InitRemediate ==
    /\ db = Live
    /\ related = {}
    /\ versions = VersionIds
    /\ nhr = [v \in VersionIds |-> NoFlags]
    /\ waffle = [name \in Switches |-> FALSE]
    /\ action = NoAction
    /\ auditLog = <<>>
    /\ history = [k \in Kinds |-> "off"]
    /\ ev = EvNone
    /\ authors = Developers
    /\ current_version = 0
    /\ language = LANGUAGE_CODE
    /\ reports \in ReportLists(Reports({NoReporter}, {""}, {FALSE}))
    /\ outbox = NoCall
    /\ racers = NoRacers

ConstructRemediate ==
    \E cls \in Takedowns \union Reversals, kind \in Kinds,
       decision \in Decisions :
        New(cls, kind, decision)

NextRemediate ==
    ConstructRemediate \/ ProcessAction \/ NotifyOwners \/ NotifyReporters

SpecRemediate == InitRemediate /\ [][NextRemediate]_vars

\* Two executions: targets of any status, nothing built
InitRace ==
    /\ db \in [Kinds -> UNION {Statuses(k) : k \in Kinds}]
    /\ \A k \in Kinds : db[k] \in Statuses(k)
    /\ related = {}
    /\ versions = VersionIds
    /\ nhr = [v \in VersionIds |-> NoFlags]
    /\ waffle = [name \in Switches |-> FALSE]
    /\ action = NoAction
    /\ auditLog = <<>>
    /\ history = [k \in Kinds |-> "off"]
    /\ ev = EvNone
    /\ NoMail

NextRace == Race

SpecRace == InitRace /\ [][NextRace]_vars

(***************************************************************************)
(* The dispatcher: idempotence, guards, construction.                      *)
(***************************************************************************)
StateMutating == Takedowns \union Reversals
RejectClasses == {"CinderActionRejectVersion", "CinderActionRejectVersionDelayed"}

\* the status a class brings its target to
InEndStatus(cls, kind, status) ==
    CASE cls = "CinderActionBanUser" -> status = "banned"
      [] cls = "CinderActionDisableAddon" -> status = STATUS_DISABLED
      [] cls \in {"CinderActionDeleteCollection", "CinderActionDeleteRating"} ->
            status = "deleted"
      [] cls \in Reversals ->
            status \notin {"banned", STATUS_DISABLED, "deleted"}
      [] OTHER -> FALSE

\* C1: for every state-mutating class and every initial status of the
\* target, a second process_action() on the same object, right after the
\* first, leaves the target in the status the first call left it in and
\* returns no entry, so that the two calls return at most one entry.
C1_ProcessTwice ==
    (ev.op = "process_action" /\ ev.again /\ ev.cls \in StateMutating)
        => /\ db[ev.kind] = ev.db0[ev.kind]
           /\ ev.ret = None
           /\ Cardinality({i \in {0, 1} :
                  (IF i = 0 THEN ev.ret0 ELSE ev.ret) # None}) <= 1

\* a second call on a CinderActionDisableAddon whose first call disabled the
\* add-on and returned the FORCE_DISABLE entry
C1_Witness ==
    /\ ev.op = "process_action" /\ ev.again
    /\ ev.cls = "CinderActionDisableAddon"
    /\ ev.ret0 = LogEntry("FORCE_DISABLE", "Addon", <<>>)
    /\ db["Addon"] = STATUS_DISABLED

\* C2: whenever process_action() of a state-mutating class is called while
\* the stored target is already in the end status of the class, a second
\* call on the same object included, no write reaches the store (no status
\* change, no cascade on related content) and no entry is returned.
C2_GuardShortCircuits ==
    (/\ ev.op = "process_action"
     /\ ev.cls \in StateMutating
     /\ InEndStatus(ev.cls, ev.kind, ev.db0[ev.kind]))
        => /\ ~ev.wrote
           /\ db = ev.db0
           /\ ev.ret = None

\* C3: the constructor fails with ImproperlyConfigured exactly when the
\* target's kind is not in valid_targets of the class, no object is built
\* then, and no construction changes a target status, a flag or the audit
\* log.
C3_TargetKindValidation ==
    [][(ev'.op = "__init__") =>
          /\ (ev'.raised = "ImproperlyConfigured")
                <=> (ev'.kind \notin valid_targets(ev'.cls))
          /\ (ev'.raised = "ImproperlyConfigured") => (action' = NoAction)
          /\ (ev'.raised = "none") =>
                (action' # NoAction /\ action'.cls = ev'.cls
                    /\ action'.kind = ev'.kind)
          /\ UNCHANGED <<db, nhr, auditLog>>]_vars

\* a construction that failed while the store held a taken-down target and
\* a log entry
C3_Witness ==
    /\ ev.op = "__init__" /\ ev.raised = "ImproperlyConfigured"
    /\ ev.cls = "CinderActionBanUser" /\ ev.kind = "Addon"
    /\ db["Addon"] = STATUS_DISABLED
    /\ auditLog # <<>>

\* C4: a takedown (ban, disable, delete) that took effect and was then
\* reversed on the same target by an appeal approval, when processed again,
\* neither changes the target's status nor writes an audit entry.
C4_ReplayExactlyOnce ==
    (/\ ev.op = "process_action"
     /\ ev.cls \in Takedowns
     /\ ev.stage0 = "reversed")
        => /\ db[ev.kind] = ev.db0[ev.kind]
           /\ ev.emitted = <<>>

\* C5: process_action() on a CinderActionRejectVersion or
\* CinderActionRejectVersionDelayed always fails with NotImplementedError,
\* leaves the add-on's status as it was and writes no audit entry.
C5_RejectVersionUnsupported ==
    (ev.op = "process_action" /\ ev.cls \in RejectClasses)
        => /\ ev.raised = "NotImplementedError"
           /\ db = ev.db0
           /\ ev.emitted = <<>>

\* C6: CinderActionNotImplemented can be built for a target of any kind, its
\* process_action() changes nothing and returns no entry, and it has no
\* owners.
C6_FallbackAnyTarget ==
    /\ (ev.op = "__init__" /\ ev.cls = "CinderActionNotImplemented")
          => (ev.raised = "none" /\ action # NoAction)
    /\ (ev.op = "process_action" /\ ev.cls = "CinderActionNotImplemented")
          => (db = ev.db0 /\ ~ev.wrote /\ ev.ret = None /\ ev.emitted = <<>>)
    /\ (action # NoAction /\ action.cls = "CinderActionNotImplemented")
          => (get_owners(action) = {})

(***************************************************************************)
(* The escalation flagger.                                                 *)
(***************************************************************************)
\* the last call was process_action() of a CinderActionEscalateAddon
Escalated == ev.op = "process_action" /\ ev.cls = "CinderActionEscalateAddon"
GateOn == waffle["dsa-cinder-escalations-review"]

\* C7: whatever escalations have been executed, each to completion, every
\* version carries at most one active flag of the escalation reason.
C7_OneActiveFlagPerVersion ==
    \A v \in VersionIds : nhr[v].active <= 1

\* an execution that flagged the latest version as a named version and then
\* ran the flag-latest fallback
C7_Witness ==
    /\ Escalated /\ ev.fallback
    /\ versions # {} /\ Max(versions) \in ev.named
    /\ nhr[Max(versions)].active = 1

\* C8: when an escalation whose named versions were all found and flagged
\* by its first execution is executed a second time, the gate still on,
\* the second execution creates no flag on any version and writes no audit
\* entry.
C8_EscalationIdempotent ==
    (/\ Escalated /\ ev.again /\ GateOn
     /\ action.decision.reported # {}
     /\ ev.named0 = action.decision.reported)
        => /\ nhr = ev.nhr0
           /\ ev.emitted = <<>>

\* C9: with the gate on and a third-party decision, the versions flagged as
\* named are the named versions the add-on has that carry no active flag of
\* the escalation reason, each gets one flag, and the flag-latest fallback
\* runs exactly when their number differs from the number of named entries
\* or nothing was named.
C9_NamedAndFallback ==
    (Escalated /\ GateOn /\ action.decision.is_third_party_initiated)
        => LET reported == action.decision.reported
           IN  /\ ev.named = {v \in versions \intersect reported :
                                ev.nhr0[v].active = 0}
               /\ \A v \in ev.named : nhr[v].active = 1
               /\ ev.fallback <=>
                     \/ Cardinality(ev.named) # Cardinality(reported)
                     \/ reported = {}

\* C10: with the gate off or a first-party decision, process_action() of
\* an escalation creates no flag, writes no audit entry, changes no target
\* status and raises nothing.
C10_EscalationGated ==
    (Escalated /\ (~GateOn \/ ~action.decision.is_third_party_initiated))
        => /\ nhr = ev.nhr0
           /\ db = ev.db0
           /\ ev.emitted = <<>>
           /\ ~ev.wrote
           /\ ev.raised = "none"

\* a first-party escalation, executed with the gate on, that names a
\* version the add-on has and that carries no flag
C10_Witness ==
    /\ Escalated /\ GateOn
    /\ ~action.decision.is_third_party_initiated
    /\ \E v \in versions \intersect action.decision.reported :
          nhr[v] = NoFlags

\* C16: an execution of an escalation writes an audit entry exactly when it
\* flagged at least one version, through the named path or the fallback; it
\* then writes one entry, and the entry lists the versions that execution
\* flagged, each once, in ascending order of id.
C16_EntryListsFlagged ==
    Escalated =>
        LET flagged == {v \in VersionIds : nhr[v].active > ev.nhr0[v].active}
        IN  /\ (ev.emitted # <<>>) <=> (flagged # {})
            /\ Len(ev.emitted) <= 1
            /\ ev.emitted # <<>> =>
                  LET listed == ev.emitted[1].versions
                  IN  /\ {listed[i] : i \in 1 .. Len(listed)} = flagged
                      /\ \A i, j \in 1 .. Len(listed) :
                            i < j => listed[i] < listed[j]

\* an execution that flagged one version as named and another one through
\* the fallback, and listed both
C16_Witness ==
    /\ Escalated
    /\ ev.named # {} /\ ev.latest # {} /\ ev.named # ev.latest
    /\ Len(ev.emitted) = 1 /\ Len(ev.emitted[1].versions) = 2

(***************************************************************************)
(* The notifier: owners.                                                   *)
(***************************************************************************)
\* the last call was notify_owners() on the object in hand
NotifiedOwners == ev.op = "notify" /\ outbox.op = "notify_owners"

\* C13: the owner notification carries an appeal link exactly when the
\* decision can be appealed by the author and either the decision is
\* third-party initiated or the dsa-appeals-review switch is on, in each
\* of the eight combinations of the three.
C13_OwnerAppealLink ==
    (NotifiedOwners /\ outbox.sent # <<>>)
        => \A appealable, third_party, gate \in BOOLEAN :
              (/\ action.decision.appealable_by_author = appealable
               /\ action.decision.is_third_party_initiated = third_party
               /\ waffle["dsa-appeals-review"] = gate)
                 => (outbox.sent[1].message.appeal_url
                        <=> (appealable /\ (third_party \/ gate)))

\* a first-party decision the author can appeal, notified with the switch
\* on, and so with the link
C13_Witness ==
    /\ NotifiedOwners /\ outbox.sent # <<>>
    /\ action.decision.appealable_by_author
    /\ ~action.decision.is_third_party_initiated
    /\ waffle["dsa-appeals-review"]
    /\ outbox.sent[1].message.appeal_url

\* C15: get_owners() of CinderActionDisableAddon is the current authors of
\* the add-on, of CinderActionBanUser the account itself, of
\* CinderActionDeleteCollection the author of the collection, of
\* CinderActionDeleteRating the user of the rating, of the appeal approvals,
\* CinderActionApproveInitialDecision and
\* CinderActionTargetAppealRemovalAffirmation the owners for the kind of
\* the target, and of CinderActionEscalateAddon and
\* CinderActionApproveNoAction no one, in every state.
C15_OwnersPerClass ==
    action # NoAction =>
        LET account == {User("account", "account@example.com")}
            curator == {User("curator", "curator@example.com")}
            rater == {User("rater", "rater@example.com")}
            per_kind == CASE action.kind = "Addon" -> authors
                          [] action.kind = "UserProfile" -> account
                          [] action.kind = "Collection" -> curator
                          [] action.kind = "Rating" -> rater
            owners == get_owners(action)
        IN  /\ action.cls = "CinderActionDisableAddon" => owners = authors
            /\ action.cls = "CinderActionBanUser" => owners = account
            /\ action.cls = "CinderActionDeleteCollection" => owners = curator
            /\ action.cls = "CinderActionDeleteRating" => owners = rater
            /\ action.cls \in {"CinderActionTargetAppealApprove",
                               "CinderActionOverrideApprove",
                               "CinderActionApproveInitialDecision",
                               "CinderActionTargetAppealRemovalAffirmation"}
                  => owners = per_kind
            /\ action.cls \in {"CinderActionEscalateAddon",
                               "CinderActionApproveNoAction"}
                  => owners = {}
            /\ NotifiedOwners => outbox.owners = owners

\* a CinderActionDisableAddon notified after one of the two authors left
\* the add-on
C15_Witness ==
    /\ NotifiedOwners /\ action.cls = "CinderActionDisableAddon"
    /\ Cardinality(authors) = 1 /\ outbox.owners = authors
    /\ outbox.sent # <<>>

\* C18: a call of notify_owners() dispatches at most once: with no owners
\* nothing is sent; with owners, and a mail collaborator that does not
\* raise, there is one dispatch, through send_activity_mail exactly when
\* the target is an add-on that has a version (with its current version,
\* else its latest one), and otherwise by one send_mail to the addresses
\* of all the owners.
C18_OneDispatch ==
    NotifiedOwners =>
        LET owners == get_owners(action)
            has_version == action.kind = "Addon" /\ versions # {}
        IN  /\ Len(outbox.sent) <= 1
            /\ owners = {} => outbox.sent = <<>>
            /\ (owners # {} /\ ~outbox.failed) =>
                  /\ Len(outbox.sent) = 1
                  /\ outbox.sent[1].channel = "send_activity_mail"
                        <=> has_version
                  /\ has_version =>
                        outbox.sent[1].version =
                            IF current_version # 0
                            THEN current_version ELSE Max(versions)
                  /\ ~has_version =>
                        /\ outbox.sent[1].channel = "send_mail"
                        /\ outbox.sent[1].to =
                              {user.email : user \in owners}

\* an add-on without a current version, notified through
\* send_activity_mail with its latest version
C18_Witness ==
    /\ NotifiedOwners /\ action.kind = "Addon"
    /\ current_version = 0 /\ versions # {}
    /\ Len(outbox.sent) = 1
    /\ outbox.sent[1].channel = "send_activity_mail"
    /\ outbox.sent[1].version = Max(versions)

(***************************************************************************)
(* The notifier: reporters.                                                *)
(***************************************************************************)
\* the last call was notify_reporters() on the object in hand, of a class
\* that has the reporter templates
NotifiedReporters ==
    /\ ev.op = "notify" /\ outbox.op = "notify_reporters"
    /\ reporter_template_path(action.cls) # ""
    /\ reporter_appeal_template_path(action.cls) # ""

\* C11: notify_reporters() on an object of a class with a reporter template,
\* with a mail collaborator that does not raise, sends one message for each
\* report that has an address (the address of the registered reporter when
\* the report has one, otherwise its free-text address), to that address
\* alone, and none for a report without an address; it raises nothing, and
\* the reports after a skipped one get their message.
C11_OnePerAddressedReport ==
    (NotifiedReporters /\ ~outbox.failed) =>
        LET address(r) == IF r.reporter # NoReporter
                          THEN r.reporter.email ELSE r.reporter_email
            addressed == {i \in 1 .. Len(reports) : address(reports[i]) # ""}
            sent == outbox.sent
        IN  /\ outbox.raised = "none"
            /\ Len(sent) = Cardinality(addressed)
            /\ \A i \in addressed :
                  \E k \in 1 .. Len(sent) :
                     /\ sent[k].message.reference = i
                     /\ sent[k].channel = "send_mail"
                     /\ sent[k].to = {address(reports[i])}
            /\ \A k \in 1 .. Len(sent) : sent[k].message.reference \in addressed

\* a list whose first report has a registered reporter without an address
\* and whose second has a free-text address: one message, for the second
C11_Witness ==
    /\ NotifiedReporters /\ outbox.raised = "none"
    /\ Len(reports) = 2
    /\ reports[1].reporter = User("ghost", "")
    /\ reports[2].reporter_email # ""
    /\ Len(outbox.sent) = 1
    /\ outbox.sent[1].message.reference = 2

\* C14: the message notify_reporters() sends for a report carries an appeal
\* link exactly when that report can be appealed by its reporter, whatever
\* the other reports of the list, the third-party flag of the decision and
\* the dsa-appeals-review switch.
C14_ReporterAppealLink ==
    NotifiedReporters =>
        \A k \in 1 .. Len(outbox.sent) :
            outbox.sent[k].message.appeal_url
                <=> reports[outbox.sent[k].message.reference].appealable

\* two messages of one call, the first without the link and the second
\* with it, under a first-party decision with the switch off
C14_Witness ==
    /\ NotifiedReporters /\ Len(outbox.sent) = 2
    /\ ~outbox.sent[1].message.appeal_url
    /\ outbox.sent[2].message.appeal_url
    /\ ~action.decision.is_third_party_initiated
    /\ ~action.decision.appealable_by_author
    /\ ~waffle["dsa-appeals-review"]

\* C19: notify_reporters() renders the message of a report under the locale
\* of that report, or under settings.LANGUAGE_CODE when it has none, and
\* when the call ends, normally, after skipped reports or by a failure of
\* the mail collaborator, the active language is the one that was active
\* before the call.
C19_LocaleScoped ==
    NotifiedReporters =>
        /\ \A k \in 1 .. Len(outbox.sent) :
              LET locale == reports[outbox.sent[k].message.reference]
                                .application_locale
              IN  outbox.sent[k].message.language =
                     IF locale # "" THEN locale ELSE LANGUAGE_CODE
        /\ language = outbox.language0

\* a call in a thread with another language active, that sent a message
\* in the locale of its report and failed on the message of the next one
C19_Witness ==
    /\ NotifiedReporters /\ outbox.failed
    /\ outbox.language0 = "de" /\ language = "de"
    /\ Len(reports) = 2 /\ Len(outbox.sent) = 1
    /\ outbox.sent[1].message.language = "fr"
    /\ reports[2].application_locale = ""

\* C12: when process_action() of a state-mutating class has applied its
\* transition and the notify_owners() or notify_reporters() that follows
\* fails in the mail collaborator, the failure reaches the caller, and the
\* status of the target and the audit log are as process_action() left
\* them.
C12_FailureKeepsRemediation ==
    (/\ ev.op = "notify" /\ outbox.cls \in StateMutating
     /\ outbox.applied0 /\ outbox.failed)
        => /\ outbox.raised = "DownstreamDeliveryFailure"
           /\ db = outbox.db0
           /\ auditLog = outbox.log0
           /\ InEndStatus(outbox.cls, outbox.kind, db[outbox.kind])

\* a notify_owners() that failed right after a CinderActionDisableAddon
\* disabled the add-on and wrote its entry
C12_Witness ==
    /\ ev.op = "notify" /\ outbox.op = "notify_owners"
    /\ outbox.cls = "CinderActionDisableAddon"
    /\ outbox.applied0 /\ outbox.failed
    /\ db["Addon"] = STATUS_DISABLED
    /\ auditLog = <<LogEntry("FORCE_DISABLE", "Addon", <<>>)>>

(***************************************************************************)
(* Two executions on one target.                                           *)
(***************************************************************************)
\* C17: when two executions of CinderActionDisableAddon, or of
\* CinderActionDeleteCollection, on the same target have both ended, in
\* whatever order their guards and writes were taken, the target is in the
\* end status of the class and the two have written at most one audit
\* entry between them.
C17_RaceOneEntry ==
    (\A r \in {1, 2} : racers[r].pc = "done")
        => /\ InEndStatus(racers[1].self.cls, racers[1].self.kind,
                          db[racers[1].self.kind])
           /\ Len(auditLog) <= 1

====
